---- MODULE Spec2Model ----
(***************************************************************************)
(* A model of check_all_bible_text.py: the text normalizers, first_diff,   *)
(* the reference fetcher's retry loop, chapter discovery and main's scan.  *)
(*                                                                         *)
(* A text (a Python str) is a sequence of characters; a character is a     *)
(* one-character string, and the four curly quotes are written LDQUO,      *)
(* RDQUO, LSQUO and RSQUO (U+201C, U+201D, U+2018, U+2019).                *)
(***************************************************************************)
EXTENDS Integers, Sequences, FiniteSets, TLC

VARIABLES
    \* a call of first_diff (SpecText): its arguments, its result
    local, ref, diff, tpc,
    \* a call of fetch_ref_chapter (SpecFetch): the responses the service
    \* gives to successive requests, and what the call did
    script, fetched, fpc,
    \* main (Spec): its position, its locals
    pc, books, bi, listing, chapters, ci,
    totals, matched, missing, errors, mismatches,
    \* main's output: the number of summary blocks printed, the rows of the
    \* CSV file ("absent" while it was not written)
    summaries, csv,
    \* history of the run: the last chapter iteration, the (book, chapter)
    \* pairs discover_chapters returned and those the loop body ran for
    last, found, processed

textVars == <<local, ref, diff, tpc>>
fetchVars == <<script, fetched, fpc>>
mainVars == <<pc, books, bi, listing, chapters, ci, totals, matched, missing,
              errors, mismatches, summaries, csv, last, found, processed>>
vars == <<local, ref, diff, tpc, script, fetched, fpc,
          pc, books, bi, listing, chapters, ci, totals, matched, missing,
          errors, mismatches, summaries, csv, last, found, processed>>

(***************************************************************************)
(* Bounds of the model.                                                    *)
(***************************************************************************)
MaxTextLen == 2
MaxVerses == 3
MaxResponses == 4

(***************************************************************************)
(* Configuration.                                                          *)
(***************************************************************************)
RETRY_COUNT == 3
SnippetLen == 200

KJV_BOOKS_IN_ORDER ==
    << "Genesis", "Exodus", "Leviticus", "Numbers", "Deuteronomy",
       "Joshua", "Judges", "Ruth", "1 Samuel", "2 Samuel",
       "1 Kings", "2 Kings", "1 Chronicles", "2 Chronicles", "Ezra",
       "Nehemiah", "Esther", "Job", "Psalms", "Proverbs",
       "Ecclesiastes", "Song of Solomon", "Isaiah", "Jeremiah", "Lamentations",
       "Ezekiel", "Daniel", "Hosea", "Joel", "Amos",
       "Obadiah", "Jonah", "Micah", "Nahum", "Habakkuk",
       "Zephaniah", "Haggai", "Zechariah", "Malachi",
       "Matthew", "Mark", "Luke", "John", "Acts",
       "Romans", "1 Corinthians", "2 Corinthians", "Galatians", "Ephesians",
       "Philippians", "Colossians", "1 Thessalonians", "2 Thessalonians", "1 Timothy",
       "2 Timothy", "Titus", "Philemon", "Hebrews", "James",
       "1 Peter", "2 Peter", "1 John", "2 John", "3 John",
       "Jude", "Revelation" >>

(***************************************************************************)
(* Characters.                                                             *)
(***************************************************************************)
Letters == {"a", "A", "b"}
Whitespace == {" ", "\t"}
\* The characters texts are drawn from: letters, whitespace, a full stop,
\* the underscore and a curly apostrophe.
Alphabet == {"a", "A", "b", " ", ".", "_", "RSQUO"}

Min(a, b) == IF a <= b THEN a ELSE b

\* \s of SPACE_RX and PUNCT_RX
IsSpace(c) == c \in Whitespace \union {"\n"}

\* \w of PUNCT_RX: a letter, a digit or the underscore
IsWord(c) == c \in Letters \union {"0", "1", "2", "3", "4", "5", "6", "7", "8", "9", "_"}

\* the four str.replace calls of norm_text
ReplaceQuotes(s) ==
    [i \in 1..Len(s) |->
        CASE s[i] \in {"LDQUO", "RDQUO"} -> "\""
          [] s[i] \in {"RSQUO", "LSQUO"} -> "'"
          [] OTHER -> s[i]]

RECURSIVE DropSpaces(_)
DropSpaces(s) ==
    IF s # <<>> /\ IsSpace(Head(s)) THEN DropSpaces(Tail(s)) ELSE s

\* SPACE_RX.sub(" ", s): every maximal run of whitespace becomes one space
RECURSIVE SubSpace(_)
SubSpace(s) ==
    IF s = <<>> THEN <<>>
    ELSE IF IsSpace(Head(s)) THEN <<" ">> \o SubSpace(DropSpaces(Tail(s)))
    ELSE <<Head(s)>> \o SubSpace(Tail(s))

RECURSIVE DropTrailingSpaces(_)
DropTrailingSpaces(s) ==
    IF s # <<>> /\ IsSpace(s[Len(s)])
    THEN DropTrailingSpaces(SubSeq(s, 1, Len(s) - 1))
    ELSE s

\* str.strip()
Strip(s) == DropTrailingSpaces(DropSpaces(s))

\* PUNCT_RX.sub("", s): every character that is neither \w nor \s is deleted
SubPunct(s) == SelectSeq(s, LAMBDA c : IsWord(c) \/ IsSpace(c))

\* str.lower()
Lower(s) == [i \in 1..Len(s) |-> IF s[i] = "A" THEN "a" ELSE s[i]]

norm_text(s) == Strip(SubSpace(ReplaceQuotes(s)))

norm_text_strict(s) == Lower(Strip(SubSpace(SubPunct(norm_text(s)))))

(***************************************************************************)
(* first_diff.                                                             *)
(***************************************************************************)
DigitChar(d) ==
    CASE d = 0 -> "0" [] d = 1 -> "1" [] d = 2 -> "2" [] d = 3 -> "3"
      [] d = 4 -> "4" [] d = 5 -> "5" [] d = 6 -> "6" [] d = 7 -> "7"
      [] d = 8 -> "8" [] d = 9 -> "9"

\* str(n) of a natural number, as the f-strings format it
RECURSIVE Str(_)
Str(n) == IF n < 10 THEN <<DigitChar(n)>> ELSE Str(n \div 10) \o <<DigitChar(n % 10)>>

\* f"[local length={len(local)}]" and f"[ref length={len(ref)}]"; the
\* literal prefix is written as one element
LengthSnippet(who, n) == <<"[" \o who \o " length=">> \o Str(n) \o <<"]">>

\* the for loop of first_diff from index i (1-based), then the length test
RECURSIVE FirstDiffLoop(_, _, _, _)
FirstDiffLoop(l, r, i, n) ==
    IF i <= n
    THEN IF norm_text_strict(l[i]) # norm_text_strict(r[i])
         THEN <<i, l[i], r[i]>>
         ELSE FirstDiffLoop(l, r, i + 1, n)
    ELSE IF Len(l) # Len(r)
         THEN <<n + 1, LengthSnippet("local", Len(l)), LengthSnippet("ref", Len(r))>>
         ELSE <<-1, <<>>, <<>>>>

\* first_diff with the length test moved in front of the verse loop
first_diff_length_first(l, r) ==
    IF Len(l) # Len(r)
    THEN <<Min(Len(l), Len(r)) + 1,
           LengthSnippet("local", Len(l)), LengthSnippet("ref", Len(r))>>
    ELSE FirstDiffLoop(l, r, 1, Min(Len(l), Len(r)))

\* first_diff without its length test: only the common prefix is compared
first_diff_prefix_only(l, r) ==
    LET n == Min(Len(l), Len(r))
        loop == FirstDiffLoop(SubSeq(l, 1, n), SubSeq(r, 1, n), 1, n)
    IN  loop

first_diff(l, r) == FirstDiffLoop(l, r, 1, Min(Len(l), Len(r)))

(***************************************************************************)
(* fetch_ref_chapter.  A response is what one requests.get call meets:     *)
(* exc is the exception requests.get raises ("" when it returns), status   *)
(* the HTTP status of the response, json whether the body parses to an     *)
(* object whose "verses" are objects, verses their "text" fields.  The     *)
(* sleeps of the loop take time only and are left out.                     *)
(***************************************************************************)
Resp(exc, status, json, verses) ==
    [exc |-> exc, status |-> status, json |-> json, verses |-> verses]

ConnectionFailed == Resp("ConnectionError", 0, FALSE, <<>>)
TimedOut == Resp("Timeout", 0, FALSE, <<>>)
RateLimited == Resp("", 429, FALSE, <<>>)
ServerError == Resp("", 500, FALSE, <<>>)
BadBody == Resp("", 200, FALSE, <<>>)
Success(verses) == Resp("", 200, TRUE, verses)

\* the exception one attempt ends with inside the try block, "" when the
\* attempt raises nothing: requests.get raising, raise_for_status on a 4xx
\* or 5xx status, r.json() on a body that is no JSON object
AttemptError(r) ==
    IF r.exc # "" THEN r.exc
    ELSE IF r.status >= 400 /\ r.status < 600 THEN "HTTPError"
    ELSE IF ~r.json THEN "JSONDecodeError"
    ELSE ""

Returned(verses, n) == [kind |-> "return", verses |-> verses, err |-> "None", requests |-> n]
Raised(err, n) == [kind |-> "raise", verses |-> <<>>, err |-> err, requests |-> n]

\* the for loop of fetch_ref_chapter at its i-th iteration (1-based), then
\* the raise after the loop; responses[i] answers the i-th request
RECURSIVE FetchLoop(_, _, _)
FetchLoop(responses, i, last_err) ==
    IF i > RETRY_COUNT THEN Raised(last_err, RETRY_COUNT)
    ELSE LET r == responses[i] IN
         IF r.exc = "" /\ r.status = 429
         THEN FetchLoop(responses, i + 1, last_err)
         ELSE IF AttemptError(r) # ""
         THEN FetchLoop(responses, i + 1, AttemptError(r))
         ELSE Returned([k \in 1..Len(r.verses) |-> norm_text(r.verses[k])], i)

fetch_ref_chapter(responses) == FetchLoop(responses, 1, "None")

(***************************************************************************)
(* Discovery.  A directory entry of the repo root is [name, isdir]; a file *)
(* name of a book directory is a sequence of characters.                   *)
(***************************************************************************)
\* the books of KJV_BOOKS_IN_ORDER that are directories of the root, in the
\* order of that list
discover_books(entries) ==
    LET present == {e.name : e \in {x \in entries : x.isdir}}
    IN  SelectSeq(KJV_BOOKS_IN_ORDER, LAMBDA b : b \in present)

JsonSuffix == <<".", "j", "s", "o", "n">>

\* name.endswith(".json")
EndsWithJson(name) ==
    /\ Len(name) >= Len(JsonSuffix)
    /\ SubSeq(name, Len(name) - Len(JsonSuffix) + 1, Len(name)) = JsonSuffix

\* name[:-5]
Stem(name) == SubSeq(name, 1, Len(name) - 5)

DigitChars == {"0", "1", "2", "3", "4", "5", "6", "7", "8", "9"}

DigitValue(c) == CHOOSE d \in 0..9 : DigitChar(d) = c

\* the value of a digit string in which underscores are skipped
RECURSIVE DigitsValue(_, _)
DigitsValue(d, acc) ==
    IF d = <<>> THEN acc
    ELSE IF Head(d) = "_" THEN DigitsValue(Tail(d), acc)
    ELSE DigitsValue(Tail(d), 10 * acc + DigitValue(Head(d)))

\* int(stem): surrounding whitespace is stripped, one sign may lead, the
\* digits may be grouped by single underscores; anything else raises
\* ValueError (ok = FALSE)
ParseInt(stem) ==
    LET t == Strip(stem)
        signed == t # <<>> /\ Head(t) \in {"+", "-"}
        d == IF signed THEN Tail(t) ELSE t
        wellFormed ==
            /\ d # <<>>
            /\ \A i \in 1..Len(d) : d[i] \in DigitChars \union {"_"}
            /\ d[1] # "_"
            /\ d[Len(d)] # "_"
            /\ \A i \in 1..(Len(d) - 1) : ~(d[i] = "_" /\ d[i + 1] = "_")
    IN  IF ~wellFormed THEN [ok |-> FALSE, value |-> 0]
        ELSE [ok |-> TRUE,
              value |-> IF signed /\ Head(t) = "-"
                        THEN 0 - DigitsValue(d, 0) ELSE DigitsValue(d, 0)]

RECURSIVE Insert(_, _)
Insert(x, sorted) ==
    IF sorted = <<>> THEN <<x>>
    ELSE IF x <= Head(sorted) THEN <<x>> \o sorted
    ELSE <<Head(sorted)>> \o Insert(x, Tail(sorted))

\* sorted(nums) of the numbers appended for the names of a set of names
RECURSIVE SortedNums(_)
SortedNums(names) ==
    IF names = {} THEN <<>>
    ELSE LET name == CHOOSE x \in names : TRUE
             rest == SortedNums(names \ {name})
         IN  IF EndsWithJson(name) /\ ParseInt(Stem(name)).ok
             THEN Insert(ParseInt(Stem(name)).value, rest)
             ELSE rest

\* one number per file name of the directory that ends with ".json" and
\* whose stem int() accepts, sorted ascending
discover_chapters(names) == SortedNums(names)

(***************************************************************************)
(* read_local_chapter.  The content of a chapter file is [readable, json,  *)
(* verses]: whether open() succeeds, whether the file parses to a JSON     *)
(* object, and the elements of its "verses" array (<<>> when the key is    *)
(* absent); an element is [isdict, text]: an object with that "text", or   *)
(* that plain string.                                                      *)
(***************************************************************************)
\* f"{chapter_num:02}": zero-padded to two characters, the sign included
Pad2(n) ==
    IF n < 0 THEN <<"-">> \o Str(0 - n)
    ELSE IF n < 10 THEN <<"0">> \o Str(n)
    ELSE Str(n)

\* f"{chapter_num}"
Unpadded(n) == IF n < 0 THEN <<"-">> \o Str(0 - n) ELSE Str(n)

\* the file read_local_chapter opens, <<>> when it raises FileNotFoundError
ChapterPath(names, chapter_num) ==
    IF Pad2(chapter_num) \o JsonSuffix \in names THEN Pad2(chapter_num) \o JsonSuffix
    ELSE IF Unpadded(chapter_num) \o JsonSuffix \in names
         THEN Unpadded(chapter_num) \o JsonSuffix
    ELSE <<>>

\* str(v) of an element of "verses": the string itself, the repr of an object
StrOf(v) == IF v.isdict THEN <<"{'text': '">> \o v.text \o <<"'}">> ELSE v.text

read_local_chapter(names, chapter_num, content) ==
    IF ChapterPath(names, chapter_num) = <<>>
    THEN [kind |-> "missing", verses |-> <<>>]
    ELSE IF ~content.readable \/ ~content.json
    THEN [kind |-> "error", verses |-> <<>>]
    ELSE LET verses == content.verses IN
         IF verses # <<>> /\ verses[1].isdict
         THEN IF \E i \in 1..Len(verses) : ~verses[i].isdict
              THEN [kind |-> "error", verses |-> <<>>]
              ELSE [kind |-> "ok", verses |-> [i \in 1..Len(verses) |-> verses[i].text]]
         ELSE [kind |-> "ok", verses |-> [i \in 1..Len(verses) |-> StrOf(verses[i])]]

(***************************************************************************)
(* main.  The counters and the mismatch list are passed as one record      *)
(* [totals, matched, missing, errors, mismatches].                         *)
(***************************************************************************)
\* s[:200]
Snippet(s) == SubSeq(s, 1, Min(Len(s), SnippetLen))

\* the missing branch without its missing += 1
OnMissingUncounted(t) == t

\* except FileNotFoundError: missing += 1; continue
OnMissing(t) == [t EXCEPT !.missing = @ + 1]

\* except Exception around read_local_chapter: errors += 1; continue
OnReadError(t) == [t EXCEPT !.errors = @ + 1]

\* the fetch error branch also appending a row to the mismatch list
OnFetchErrorReported(t) ==
    [t EXCEPT !.errors = @ + 1,
              !.mismatches = Append(@, [book |-> "", chapter |-> 0,
                                        first_diff_verse |-> 0,
                                        local_snippet |-> <<>>,
                                        ref_snippet |-> <<"fetch error">>,
                                        local_verse_count |-> 0,
                                        ref_verse_count |-> 0])]

\* except Exception around fetch_ref_chapter: errors += 1; continue
OnFetchError(t) == [t EXCEPT !.errors = @ + 1]

\* vnum == -1: matched += 1
OnMatch(t) == [t EXCEPT !.matched = @ + 1]

\* vnum != -1: mismatches.append({...})
OnMismatch(t, record) == [t EXCEPT !.mismatches = Append(@, record)]

\* one iteration of "for ch in chapters": the counters and the mismatch
\* list after it
LoopBody(book, ch, names, content, responses, t) ==
    LET t0 == [t EXCEPT !.totals = @ + 1]
        rd == read_local_chapter(names, ch, content)
        ft == fetch_ref_chapter(responses)
        d  == first_diff(rd.verses, ft.verses)
    IN  IF rd.kind = "missing"
        THEN OnMissing(t0)
        ELSE IF rd.kind = "error"
        THEN OnReadError(t0)
        ELSE IF ft.kind = "raise"
        THEN OnFetchError(t0)
        ELSE IF d[1] = -1
        THEN OnMatch(t0)
        ELSE OnMismatch(t0,
                          [book |-> book,
                           chapter |-> ch,
                           first_diff_verse |-> d[1],
                           local_snippet |-> Snippet(d[2]),
                           ref_snippet |-> Snippet(d[3]),
                           local_verse_count |-> Len(rd.verses),
                           ref_verse_count |-> Len(ft.verses)])

\* "for ch in chapters" with a break where the body has its continue after
\* a read or fetch error
NextChapterBreakOnError(i, n, did) ==
    IF did.read = "error" \/ did.fetch = "exhausted" THEN n + 1 ELSE i + 1

\* the index of the chapter the loop goes on with after iteration i of n,
\* did being what the iteration did: every branch of the body ends the
\* iteration only
NextChapter(i, n, did) == i + 1

(***************************************************************************)
(* SpecText: first_diff applied to every pair of verse lists of a bounded  *)
(* domain.                                                                 *)
(***************************************************************************)
Texts == UNION {[1..k -> Alphabet] : k \in 0..MaxTextLen}

\* verses of several lengths, some of them equal under norm_text_strict
SampleVerses ==
    { <<"a">>, <<" ", "A", ".">>, <<"a", "_">>, <<"RSQUO", "a", " ", "\t", "b">> }

ListsOf(S, n) == UNION {[1..k -> S] : k \in 0..n}

TextInputs ==
    {<<(<<s>>), (<<t>>)>> : s \in Texts, t \in Texts}
        \union (ListsOf(SampleVerses, MaxVerses) \X ListsOf(SampleVerses, MaxVerses))

TextIdle ==
    /\ local = <<>>
    /\ ref = <<>>
    /\ diff = <<0, <<>>, <<>>>>
    /\ tpc = "idle"

FetchIdle ==
    /\ script = <<>>
    /\ fetched = [kind |-> "none", verses |-> <<>>, err |-> "None", requests |-> 0]
    /\ fpc = "idle"

MainIdle ==
    /\ pc = "idle"
    /\ books = <<>>
    /\ bi = 1
    /\ listing = {}
    /\ chapters = <<>>
    /\ ci = 1
    /\ totals = 0 /\ matched = 0 /\ missing = 0 /\ errors = 0
    /\ mismatches = <<>>
    /\ summaries = 0
    /\ csv = "absent"
    /\ last = [read |-> "none", fetch |-> "none", vnum |-> 0]
    /\ found = <<>>
    /\ processed = <<>>

InitText ==
    /\ MainIdle
    /\ \E p \in TextInputs : local = p[1] /\ ref = p[2]
    /\ diff = <<0, <<>>, <<>>>>
    /\ tpc = "call"
    /\ FetchIdle

CallFirstDiff ==
    /\ tpc = "call"
    /\ diff' = first_diff(local, ref)
    /\ tpc' = "returned"
    /\ UNCHANGED <<local, ref>>
    /\ UNCHANGED fetchVars
    /\ UNCHANGED mainVars

NextText == CallFirstDiff

SpecText == InitText /\ [][NextText]_vars

(***************************************************************************)
(* SpecFetch: fetch_ref_chapter against every sequence of MaxResponses     *)
(* responses; the call consumes as many of them as it makes requests.      *)
(***************************************************************************)
Responses ==
    { ConnectionFailed, TimedOut, RateLimited, ServerError, BadBody,
      Success(<<>>), Success(<< <<"LDQUO", "a", " ", " ", "b", "RDQUO", " ">> >>) }

InitFetch ==
    /\ script \in [1..MaxResponses -> Responses]
    /\ fetched = [kind |-> "none", verses |-> <<>>, err |-> "None", requests |-> 0]
    /\ fpc = "call"
    /\ TextIdle
    /\ MainIdle

CallFetch ==
    /\ fpc = "call"
    /\ fetched' = fetch_ref_chapter(script)
    /\ fpc' = "returned"
    /\ UNCHANGED script
    /\ UNCHANGED textVars
    /\ UNCHANGED mainVars

NextFetch == CallFetch

SpecFetch == InitFetch /\ [][NextFetch]_vars

(***************************************************************************)
(* Spec: one run of main.  The directory listings, the file contents and   *)
(* the service's responses are drawn when the code asks for them.          *)
(***************************************************************************)
Json(stem) == stem \o JsonSuffix

\* entries of the repo root: two books, a directory that is no book name
\* (wrong case), a book name that is a file
RootEntries ==
    { [name |-> "Exodus", isdir |-> TRUE], [name |-> "Genesis", isdir |-> TRUE],
      [name |-> "genesis", isdir |-> TRUE], [name |-> "Leviticus", isdir |-> FALSE] }

\* file names of a book directory: 01.json, 1.json, 002.json, x.json, 2.txt
FileNames ==
    { Json(<<"0", "1">>), Json(<<"1">>), Json(<<"0", "0", "2">>), Json(<<"x">>),
      <<"2", ".", "t", "x", "t">> }

Dict(text) == [isdict |-> TRUE, text |-> text]
Plain(text) == [isdict |-> FALSE, text |-> text]

\* an unreadable file, a file that is no JSON object, and three chapters
FileContents ==
    { [readable |-> FALSE, json |-> FALSE, verses |-> <<>>],
      [readable |-> TRUE, json |-> FALSE, verses |-> <<>>],
      [readable |-> TRUE, json |-> TRUE, verses |-> <<Dict(<<"a">>)>>],
      [readable |-> TRUE, json |-> TRUE, verses |-> <<Plain(<<"a">>), Plain(<<"b">>)>>],
      [readable |-> TRUE, json |-> TRUE, verses |-> <<Dict(<<"b">>), Dict(<<"b">>)>>] }

MainResponses ==
    { RateLimited, ServerError, Success(<< <<"A", ".", " ">>, <<"RSQUO", "b">> >>) }

\* the responses to the requests of one iteration: fetch_ref_chapter is
\* called only when read_local_chapter returned
ResponsesFor(names, ch, content) ==
    IF read_local_chapter(names, ch, content).kind = "ok"
    THEN [1..RETRY_COUNT -> MainResponses]
    ELSE {[i \in 1..RETRY_COUNT |-> RateLimited]}

\* what the calls of one iteration returned: read_local_chapter ("ok",
\* "missing", "error"), fetch_ref_chapter ("ok", "exhausted", or "skipped"
\* when it was not called) and first_diff's verse number (0 when it was not
\* called)
Did(names, ch, content, responses) ==
    LET rd == read_local_chapter(names, ch, content)
        ft == fetch_ref_chapter(responses)
    IN  [read |-> rd.kind,
         fetch |-> IF rd.kind # "ok" THEN "skipped"
                   ELSE IF ft.kind = "raise" THEN "exhausted" ELSE "ok",
         vnum |-> IF rd.kind = "ok" /\ ft.kind = "return"
                  THEN first_diff(rd.verses, ft.verses)[1] ELSE 0]

Tally ==
    [totals |-> totals, matched |-> matched, missing |-> missing,
     errors |-> errors, mismatches |-> mismatches]

Init ==
    /\ pc = "start"
    /\ books = <<>>
    /\ bi = 1
    /\ listing = {}
    /\ chapters = <<>>
    /\ ci = 1
    /\ totals = 0 /\ matched = 0 /\ missing = 0 /\ errors = 0
    /\ mismatches = <<>>
    /\ summaries = 0
    /\ csv = "absent"
    /\ last = [read |-> "none", fetch |-> "none", vnum |-> 0]
    /\ found = <<>>
    /\ processed = <<>>
    /\ TextIdle
    /\ FetchIdle

\* books = discover_books(); if not books: print(...); return
DiscoverBooks ==
    /\ pc = "start"
    /\ \E entries \in SUBSET RootEntries :
          /\ books' = discover_books(entries)
          /\ pc' = IF books' = <<>> THEN "done" ELSE "book"
    /\ bi' = 1
    /\ UNCHANGED <<listing, chapters, ci, totals, matched, missing, errors,
                   mismatches, summaries, csv, last, found, processed>>
    /\ UNCHANGED <<textVars, fetchVars>>

\* for book in books: chapters = discover_chapters(book); if not chapters: continue
DiscoverChapters ==
    /\ pc = "book"
    /\ bi <= Len(books)
    /\ \E names \in SUBSET FileNames :
          LET chs == discover_chapters(names) IN
          /\ found' = found \o [i \in 1..Len(chs) |-> <<books[bi], chs[i]>>]
          /\ IF chs = <<>>
             THEN /\ bi' = bi + 1
                  /\ UNCHANGED <<pc, listing, chapters>>
             ELSE /\ pc' = "chapter"
                  /\ listing' = names
                  /\ chapters' = chs
                  /\ UNCHANGED bi
    /\ ci' = 1
    /\ UNCHANGED <<books, totals, matched, missing, errors, mismatches,
                   summaries, csv, last, processed>>
    /\ UNCHANGED <<textVars, fetchVars>>

\* one iteration of for ch in chapters
ProcessChapter ==
    /\ pc = "chapter"
    /\ ci <= Len(chapters)
    /\ \E content \in FileContents :
       \E responses \in ResponsesFor(listing, chapters[ci], content) :
          LET tally == LoopBody(books[bi], chapters[ci], listing, content, responses, Tally)
              did == Did(listing, chapters[ci], content, responses)
              next == NextChapter(ci, Len(chapters), did)
          IN  /\ totals' = tally.totals
              /\ matched' = tally.matched
              /\ missing' = tally.missing
              /\ errors' = tally.errors
              /\ mismatches' = tally.mismatches
              /\ last' = did
              /\ processed' = Append(processed, <<books[bi], chapters[ci]>>)
              /\ IF next <= Len(chapters)
                 THEN /\ ci' = next
                      /\ UNCHANGED <<pc, bi, listing, chapters>>
                 ELSE /\ pc' = "book"
                      /\ bi' = bi + 1
                      /\ ci' = 1
                      /\ listing' = {}
                      /\ chapters' = <<>>
    /\ UNCHANGED <<books, summaries, csv, found>>
    /\ UNCHANGED <<textVars, fetchVars>>

\* after the loops: if mismatches: the CSV file is written
WriteCsv ==
    /\ pc = "book"
    /\ bi > Len(books)
    /\ csv' = IF mismatches # <<>> THEN mismatches ELSE csv
    /\ pc' = "summary"
    /\ UNCHANGED <<books, bi, listing, chapters, ci, totals, matched, missing,
                   errors, mismatches, summaries, last, found, processed>>
    /\ UNCHANGED <<textVars, fetchVars>>

\* open(CSV_OUT, "w") or a write raises: main ends with the exception
WriteCsvFails ==
    /\ pc = "book"
    /\ bi > Len(books)
    /\ mismatches # <<>>
    /\ pc' = "crashed"
    /\ UNCHANGED <<books, bi, listing, chapters, ci, totals, matched, missing,
                   errors, mismatches, summaries, csv, last, found, processed>>
    /\ UNCHANGED <<textVars, fetchVars>>

\* the summary is printed inside "if mismatches:" only
PrintSummaryIfMismatches ==
    /\ pc = "summary"
    /\ summaries' = IF mismatches # <<>> THEN summaries + 1 ELSE summaries
    /\ pc' = "done"
    /\ UNCHANGED <<books, bi, listing, chapters, ci, totals, matched, missing,
                   errors, mismatches, csv, last, found, processed>>
    /\ UNCHANGED <<textVars, fetchVars>>

\* the SUMMARY block, then main returns
PrintSummary ==
    /\ pc = "summary"
    /\ summaries' = summaries + 1
    /\ pc' = "done"
    /\ UNCHANGED <<books, bi, listing, chapters, ci, totals, matched, missing,
                   errors, mismatches, csv, last, found, processed>>
    /\ UNCHANGED <<textVars, fetchVars>>

Next ==
    \/ DiscoverBooks
    \/ DiscoverChapters
    \/ ProcessChapter
    \/ WriteCsv
    \/ WriteCsvFails
    \/ PrintSummary

Spec == Init /\ [][Next]_vars

(***************************************************************************)
(* Properties of main (Spec).                                              *)
(***************************************************************************)
Ended == pc \in {"done", "crashed"}

\* C2: no (book, chapter) pair has the loop body run for it twice.
C2_ProcessedOnce ==
    \A i, j \in 1..Len(processed) : i # j => processed[i] # processed[j]

\* C6: every run of main that ends has printed the summary exactly once.
C6_SummaryAlways == Ended => summaries = 1

\* C6 as amended: a run that found a book and returns has printed the
\* summary exactly once, as the last thing it did; a run that found no book
\* returns without a summary.
C6_SummaryWhenBooks ==
    /\ pc = "done" => summaries = (IF books = <<>> THEN 0 ELSE 1)
    /\ pc # "done" => summaries = 0

C6_Witness ==
    /\ pc = "done"
    /\ books # <<>>
    /\ totals > 0
    /\ mismatches = <<>>
    /\ csv = "absent"
    /\ summaries = 1

\* C7: whatever the reads and fetches did, the loop body has run for every
\* chapter discover_chapters returned, in every discovered book, when main
\* leaves its loops; until then it has run for a prefix of them.
C7_ErrorsIsolated ==
    /\ Len(processed) <= Len(found)
    /\ processed = SubSeq(found, 1, Len(processed))
    /\ pc \in {"summary", "done", "crashed"} =>
          /\ bi = Len(books) + 1
          /\ processed = found
          /\ totals = Len(found)

C7_Witness ==
    /\ pc = "done"
    /\ Len(books) = 2
    /\ totals = 4
    /\ processed[1][1] = "Genesis"
    /\ processed[2][1] = "Genesis"
    /\ processed[4][1] = "Exodus"
    /\ errors = 2
    /\ missing = 1
    /\ matched = 1
    /\ last = [read |-> "ok", fetch |-> "ok", vnum |-> -1]

\* C8: an iteration whose file is missing adds one to totals and to missing
\* and nothing else; one whose read or fetch fails adds one to totals and to
\* errors and nothing else; the mismatch list grows only by the record of an
\* iteration whose read and fetch succeeded and whose first_diff returned a
\* verse number; no other step touches the list.
C8_ReportOnlyMismatches ==
    [][ /\ totals' = totals => mismatches' = mismatches
        /\ totals' # totals =>
              /\ totals' = totals + 1
              /\ last'.read = "missing" =>
                    /\ missing' = missing + 1
                    /\ UNCHANGED <<matched, errors, mismatches>>
              /\ (last'.read = "error" \/ last'.fetch = "exhausted") =>
                    /\ errors' = errors + 1
                    /\ UNCHANGED <<matched, missing, mismatches>>
              /\ mismatches' # mismatches =>
                    /\ last'.read = "ok"
                    /\ last'.fetch = "ok"
                    /\ last'.vnum >= 1
                    /\ Len(mismatches') = Len(mismatches) + 1
                    /\ SubSeq(mismatches', 1, Len(mismatches)) = mismatches
                    /\ mismatches'[Len(mismatches')].book = books[bi]
                    /\ mismatches'[Len(mismatches')].chapter = chapters[ci]
                    /\ mismatches'[Len(mismatches')].first_diff_verse = last'.vnum
      ]_vars

C8_Witness ==
    /\ Len(mismatches) = 1
    /\ missing = 1
    /\ errors = 2
    /\ matched = 0
    /\ totals = 4
    /\ last.fetch = "exhausted"

\* C10: the chapters scanned are the matched, the mismatched, the missing
\* and the errored ones.
C10_OutcomesPartition ==
    totals = matched + Len(mismatches) + missing + errors

C10_Witness ==
    /\ pc = "done"
    /\ matched >= 1
    /\ Len(mismatches) >= 1
    /\ missing >= 1
    /\ errors >= 1

(***************************************************************************)
(* Properties of fetch_ref_chapter (SpecFetch).                            *)
(***************************************************************************)
IsSuccess(r) == r.exc = "" /\ r.status = 200 /\ r.json
Is429(r) == r.exc = "" /\ r.status = 429

\* the number of failures other than a 429 among the first k responses
RECURSIVE HardFails(_, _)
HardFails(responses, k) ==
    IF k = 0 THEN 0
    ELSE HardFails(responses, k - 1)
            + (IF IsSuccess(responses[k]) \/ Is429(responses[k]) THEN 0 ELSE 1)

\* C1: a 429 does not consume the retry budget: when the first successful
\* response comes after any number of 429s and fewer than RETRY_COUNT other
\* failures, the call returns that response's verses.
C1_RateLimitFree ==
    fpc = "returned" =>
        \A k \in 1..Len(script) :
            (/\ IsSuccess(script[k])
             /\ \A j \in 1..(k - 1) : ~IsSuccess(script[j])
             /\ HardFails(script, k - 1) < RETRY_COUNT)
                => /\ fetched.kind = "return"
                   /\ fetched.verses =
                        [i \in 1..Len(script[k].verses) |-> norm_text(script[k].verses[i])]

\* the 429s that do fit into the RETRY_COUNT requests are retried
RateLimitWithinBudget ==
    fpc = "returned" =>
        \A k \in 1..RETRY_COUNT :
            (IsSuccess(script[k]) /\ \A j \in 1..(k - 1) : ~IsSuccess(script[j]))
                => /\ fetched.kind = "return"
                   /\ fetched.requests = k

\* the error a failed attempt is known by: the exception of the try block,
\* or the 429 status of a rate-limited one
FailureOf(r) == IF Is429(r) THEN "HTTP 429" ELSE AttemptError(r)

\* C9: when the retries are exhausted the call fails with the error of the
\* last failed attempt.
C9_LastError ==
    (fpc = "returned" /\ fetched.kind = "raise") =>
        fetched.err = FailureOf(script[fetched.requests])

\* what the code carries: the error of the last attempt that was not a 429,
\* None when every attempt was rate-limited
LastHardError ==
    (fpc = "returned" /\ fetched.kind = "raise") =>
        LET hard == {j \in 1..RETRY_COUNT : ~Is429(script[j])} IN
        IF hard = {} THEN fetched.err = "None"
        ELSE \E j \in hard : /\ \A h \in hard : h <= j
                              /\ fetched.err = AttemptError(script[j])

(***************************************************************************)
(* Properties of first_diff and norm_text_strict (SpecText).               *)
(***************************************************************************)
CommonLen == Min(Len(local), Len(ref))

\* the verse numbers of the common prefix whose strict forms differ
Differing == {i \in 1..CommonLen : norm_text_strict(local[i]) # norm_text_strict(ref[i])}

\* C3: when some verse of the common prefix differs under strict
\* normalization, first_diff returns the number of the first such verse and
\* the local and reference texts of that verse, whether or not the two lists
\* have the same length.
C3_FirstContentDiff ==
    (tpc = "returned" /\ Differing # {}) =>
        \E i \in Differing :
            /\ \A j \in Differing : i <= j
            /\ diff = <<i, local[i], ref[i]>>

C3_Witness ==
    /\ tpc = "returned"
    /\ Len(local) # Len(ref)
    /\ Differing # {}
    /\ 1 \notin Differing
    /\ diff[1] = 2

\* C4: when the common prefix matches and the lengths differ, first_diff
\* returns common length + 1 with the two length snippets; it returns -1 only
\* for lists of equal length whose verses all match.
C4_LengthDiff ==
    tpc = "returned" =>
        /\ (Differing = {} /\ Len(local) # Len(ref)) =>
               diff = <<CommonLen + 1,
                        LengthSnippet("local", Len(local)),
                        LengthSnippet("ref", Len(ref))>>
        /\ diff[1] = -1 => (Len(local) = Len(ref) /\ Differing = {})

C4_Witness ==
    /\ tpc = "returned"
    /\ Len(ref) >= 1
    /\ Len(local) > Len(ref)
    /\ Differing = {}
    /\ diff = <<Len(ref) + 1, <<"[local length=", "3", "]">>, <<"[ref length=", "2", "]">>>>

\* punctuation as the claim defines it: not a letter, not a digit, not
\* whitespace (the underscore is punctuation)
IsPunctuation(c) ==
    /\ c \notin Letters
    /\ c \notin {"0", "1", "2", "3", "4", "5", "6", "7", "8", "9"}
    /\ ~IsSpace(c)

WithoutPunctuation(s) == SelectSeq(s, LAMBDA c : ~IsPunctuation(c))

\* two texts that differ in punctuation only
PunctuationOnly(s, t) == WithoutPunctuation(s) = WithoutPunctuation(t)

\* C5: two verses that differ in punctuation only (underscore included) are
\* equal under norm_text_strict, so first_diff reports a match.
C5_PunctuationIgnored ==
    (/\ tpc = "returned"
     /\ Len(local) = Len(ref)
     /\ \A i \in 1..Len(local) : PunctuationOnly(local[i], ref[i]))
        => diff[1] = -1

\* C5 without the underscore: what the code does guarantee
PunctuationOnlyNoUnderscore(s, t) ==
    SelectSeq(s, LAMBDA c : c = "_" \/ ~IsPunctuation(c))
        = SelectSeq(t, LAMBDA c : c = "_" \/ ~IsPunctuation(c))

PunctuationExceptUnderscoreIgnored ==
    (/\ tpc = "returned"
     /\ Len(local) = Len(ref)
     /\ \A i \in 1..Len(local) : PunctuationOnlyNoUnderscore(local[i], ref[i]))
        => diff[1] = -1

====
